---- MODULE Spec2Model ----
(***************************************************************************)
(* State-machine model of src/monitor.py: main() runs NUM_CHECKS cycles;   *)
(* each cycle calls monitor_agent_run (fetch the score page, hand the raw  *)
(* HTML to call_gemini_agent, e-mail an alert when the returned list is    *)
(* non-empty) and then sleeps for what is left of SLEEP_INTERVAL.          *)
(*                                                                         *)
(* Time is an integer clock (time.time()); every external call (GET, POST, *)
(* SMTP dialogue) takes 0 or StepTime units.  A page text is the number k *)
(* of retired or walked-over matches it shows; the list returned by        *)
(* call_gemini_agent is a set of matches (the empty set: the empty list).  *)
(***************************************************************************)
EXTENDS Integers, FiniteSets, Sequences, TLC

\* ---- program constants -------------------------------------------------
NUM_CHECKS == 6
SLEEP_INTERVAL == 10

\* ---- bounds of the model -----------------------------------------------
NumMatches == 2    \* retired or walked-over matches the page may show

\* Duration of a slow external call (a fast one takes 0): half an interval, so
\* that the one to three calls of a cycle add up to less than, exactly, and
\* more than SLEEP_INTERVAL.
StepTime == SLEEP_INTERVAL \div 2

Texts == 0..NumMatches
StepTimes == {0, StepTime}
NoText == -1

VARIABLES
    pc,                \* position of main(): Idle, for, fetching, analysing,
                       \* notifying, after_run, sleeping, Done
    i,                 \* loop variable of main()
    now,               \* time.time()
    start_time,        \* main(): start_time
    end_time,          \* main(): end_time
    time_to_sleep,     \* main(): time_to_sleep
    credentials_set,   \* all([SENDER_EMAIL, SENDER_PASSWORD, RECEIVER_EMAIL])
    raw_html_content,  \* monitor_agent_run: response.text (NoText before the fetch)
    matches_found,     \* monitor_agent_run: result of call_gemini_agent
    send_ret,          \* outcome of send_email_alert: none, True, False, raised
    run_ret,           \* return value of monitor_agent_run: none, True, False
    main_ret,          \* what main() returned: [kind |-> "running" | "None"]
    cancel_requested,  \* the environment asked the run to stop
    proxy_set,         \* all([PROXY_HOST, PROXY_USER, PROXY_PASS])
    session,           \* main(): session, as the route it gives http and https
    \* ---- observations of the run (history) ----
    cycles_run,        \* loop bodies entered so far
    notifier_calls,    \* calls of send_email_alert so far
    texts_fetched,     \* page texts obtained so far
    detections,        \* results call_gemini_agent returned in finished analyses
    alerted,           \* events send_email_alert was called for
    failed_events,     \* events whose send_email_alert call returned False
    new_context,       \* this cycle's result differs from every earlier result
    fetch_error,       \* this cycle's GET raised a RequestException
    prev_start,        \* start_time of the previous cycle
    analysis_error,    \* this cycle's call_gemini_agent took its except branch
    nonempty_results,  \* analyses so far that returned a non-empty list
    smtp_connections,  \* smtplib.SMTP connections opened so far
    fetch_routes       \* routes the GETs of the run went through

vars == <<pc, i, now, start_time, end_time, time_to_sleep, credentials_set,
          raw_html_content, matches_found, send_ret, run_ret, main_ret,
          cancel_requested, cycles_run, notifier_calls, texts_fetched,
          detections, alerted, failed_events, new_context, fetch_error,
          prev_start, proxy_set, session, analysis_error, nonempty_results,
          smtp_connections, fetch_routes>>

timing == <<now, start_time, end_time, time_to_sleep, prev_start>>
history == <<cycles_run, notifier_calls, texts_fetched, detections, alerted,
             failed_events, new_context, fetch_error>>
locals == <<raw_html_content, matches_found, send_ret, run_ret>>

Max(a, b) == IF a >= b THEN a ELSE b

\* The program keeps no record of the events it has alerted on: every name of
\* monitor_agent_run is local to one call, and main() passes only the session.
DedupStore == {}

\* The identity of a detected event: the content of the returned list.
EventKey(m) == m

\* The session before create_proxied_session has run.
NoSession == [http |-> "none", https |-> "none"]

\* Variant of create_proxied_session: only the http entry of session.proxies
\* is set.
create_proxied_session_http_only(all_set) ==
    IF ~all_set
    THEN [http |-> "direct", https |-> "direct"]
    ELSE [http |-> "proxy", https |-> "direct"]

\* create_proxied_session(): a plain requests.Session() when a proxy setting is
\* missing, otherwise one whose proxies map http and https to the proxy URL.
create_proxied_session(all_set) ==
    IF ~all_set
    THEN [http |-> "direct", https |-> "direct"]
    ELSE [http |-> "proxy", https |-> "proxy"]

\* The route of session.get(FINISHED_SCORES_URL): the URL is an https one.
FetchRoute(s) == s.https

Init ==
    /\ pc = "Idle"
    /\ i = 0
    /\ now = 0
    /\ start_time = 0
    /\ end_time = 0
    /\ time_to_sleep = 0
    /\ credentials_set \in BOOLEAN
    /\ raw_html_content = NoText
    /\ matches_found = {}
    /\ send_ret = "none"
    /\ run_ret = "none"
    /\ main_ret = [kind |-> "running"]
    /\ cancel_requested = FALSE
    /\ cycles_run = 0
    /\ notifier_calls = 0
    /\ texts_fetched = {}
    /\ detections = {}
    /\ alerted = {}
    /\ failed_events = {}
    /\ new_context = FALSE
    /\ fetch_error = FALSE
    /\ prev_start = 0
    /\ proxy_set \in BOOLEAN
    /\ session = NoSession
    /\ analysis_error = FALSE
    /\ nonempty_results = 0
    /\ smtp_connections = 0
    /\ fetch_routes = {}

\* main(): session = create_proxied_session(), then the for statement.
Start ==
    /\ pc = "Idle"
    /\ session' = create_proxied_session(proxy_set)
    /\ pc' = "for"
    /\ UNCHANGED <<i, timing, credentials_set, locals, main_ret,
                   cancel_requested, history,
                   proxy_set, analysis_error, nonempty_results, smtp_connections, fetch_routes>>

\* Variant of ForNext: the next iteration also starts while the send of the
\* current one is still under way (an alert sent in the background).
ForNext_overlap ==
    /\ pc \in {"for", "notifying"}
    /\ i < NUM_CHECKS
    /\ i' = i + 1
    /\ start_time' = now
    /\ prev_start' = start_time
    /\ cycles_run' = cycles_run + 1
    /\ raw_html_content' = NoText
    /\ matches_found' = {}
    /\ send_ret' = "none"
    /\ run_ret' = "none"
    /\ new_context' = FALSE
    /\ fetch_error' = FALSE
    /\ analysis_error' = FALSE
    /\ pc' = "fetching"
    /\ UNCHANGED <<now, end_time, time_to_sleep, credentials_set, main_ret,
                   cancel_requested, notifier_calls, texts_fetched, detections,
                   alerted, failed_events,
                   proxy_set, session, nonempty_results, smtp_connections, fetch_routes>>

\* for i in range(1, NUM_CHECKS + 1): start_time = time.time(), then the call
\* of monitor_agent_run up to its GET.
ForNext ==
    /\ pc = "for"
    /\ i < NUM_CHECKS
    /\ i' = i + 1
    /\ start_time' = now
    /\ prev_start' = start_time
    /\ cycles_run' = cycles_run + 1
    /\ raw_html_content' = NoText
    /\ matches_found' = {}
    /\ send_ret' = "none"
    /\ run_ret' = "none"
    /\ new_context' = FALSE
    /\ fetch_error' = FALSE
    /\ analysis_error' = FALSE
    /\ pc' = "fetching"
    /\ UNCHANGED <<now, end_time, time_to_sleep, credentials_set, main_ret,
                   cancel_requested, notifier_calls, texts_fetched, detections,
                   alerted, failed_events,
                   proxy_set, session, nonempty_results, smtp_connections, fetch_routes>>

\* The range is exhausted: main() prints the closing line and returns None.
ForExit ==
    /\ pc = "for"
    /\ i = NUM_CHECKS
    /\ pc' = "Done"
    /\ main_ret' = [kind |-> "None"]
    /\ UNCHANGED <<i, timing, credentials_set, locals, cancel_requested, history,
                   proxy_set, session, analysis_error, nonempty_results, smtp_connections, fetch_routes>>

\* session.get(...) and raise_for_status() succeed: raw_html_content = response.text.
FetchOk ==
    /\ pc = "fetching"
    /\ \E t \in Texts, dt \in StepTimes :
        /\ raw_html_content' = t
        /\ texts_fetched' = texts_fetched \cup {t}
        /\ now' = now + dt
    /\ fetch_routes' = fetch_routes \cup {FetchRoute(session)}
    /\ pc' = "analysing"
    /\ UNCHANGED <<i, start_time, end_time, time_to_sleep, prev_start,
                   credentials_set, matches_found, send_ret, run_ret,
                   main_ret, cancel_requested, cycles_run, notifier_calls,
                   detections, alerted, failed_events, new_context, fetch_error,
                   proxy_set, session, analysis_error, nonempty_results, smtp_connections>>

\* Variant of FetchFail: the RequestException is not caught and ends main().
FetchFail_escapes ==
    /\ pc = "fetching"
    /\ \E dt \in StepTimes : now' = now + dt
    /\ fetch_error' = TRUE
    /\ fetch_routes' = fetch_routes \cup {FetchRoute(session)}
    /\ pc' = "Done"
    /\ UNCHANGED <<i, start_time, end_time, time_to_sleep, prev_start,
                   credentials_set, locals, main_ret, cancel_requested,
                   cycles_run, notifier_calls, texts_fetched, detections,
                   alerted, failed_events, new_context,
                   proxy_set, session, analysis_error, nonempty_results, smtp_connections>>

\* The GET times out, fails or answers a bad status: the RequestException is
\* caught in monitor_agent_run, which returns False.
FetchFail ==
    /\ pc = "fetching"
    /\ \E dt \in StepTimes : now' = now + dt
    /\ fetch_error' = TRUE
    /\ fetch_routes' = fetch_routes \cup {FetchRoute(session)}
    /\ run_ret' = "False"
    /\ pc' = "after_run"
    /\ UNCHANGED <<i, start_time, end_time, time_to_sleep, prev_start,
                   credentials_set, raw_html_content, matches_found,
                   send_ret, main_ret, cancel_requested, cycles_run,
                   notifier_calls, texts_fetched, detections, alerted,
                   failed_events, new_context,
                   proxy_set, session, analysis_error, nonempty_results, smtp_connections>>

\* Variant of ShouldNotify: a match that was part of an earlier alert
\* suppresses the alert, whatever else the list now holds.
ShouldNotify_once_per_match(m) == m # {} /\ \A a \in alerted : a \cap m = {}

\* Variant of ShouldNotify: the alert is sent whatever the list holds.
ShouldNotify_always(m) == TRUE

\* if matches_found: the alert is sent exactly when the list is non-empty.
ShouldNotify(m) == m # {}

\* Variant of GeminiFailure: the except branch returns a list holding an error
\* record (match 0) instead of the empty list.
GeminiFailure_error_record == {0}

\* call_gemini_agent, except branch: "return []".
GeminiFailure == {}

\* call_gemini_agent(raw_html_content): the parsed answer, or the result of the
\* except branch when the POST, the status check or the parsing raised.
call_gemini_agent(text, failed) == IF failed THEN GeminiFailure ELSE 1..text

\* What call_gemini_agent may return for a page text: the matches the page
\* shows (json.loads of the model's answer), or the empty list when the POST,
\* the status check or the parsing raises ("except Exception: return []").
GeminiAnswers(text) == {call_gemini_agent(text, failed) : failed \in BOOLEAN}

\* matches_found = call_gemini_agent(raw_html_content); monitor_agent_run then
\* either goes on to send the alert or returns False.
Analyse ==
    /\ pc = "analysing"
    /\ \E failed \in BOOLEAN, dt \in StepTimes :
        LET m == call_gemini_agent(raw_html_content, failed) IN
        /\ matches_found' = m
        /\ analysis_error' = failed
        /\ nonempty_results' = nonempty_results + (IF m # {} THEN 1 ELSE 0)
        /\ now' = now + dt
        /\ new_context' = (m # {} /\ EventKey(m) \notin detections)
        /\ detections' = detections \cup {EventKey(m)}
        /\ IF ShouldNotify(m)
           THEN /\ pc' = "notifying"
                /\ run_ret' = run_ret
           ELSE /\ pc' = "after_run"
                /\ run_ret' = "False"
    /\ UNCHANGED <<i, start_time, end_time, time_to_sleep, prev_start,
                   credentials_set, raw_html_content, send_ret, main_ret,
                   cancel_requested, cycles_run, notifier_calls, texts_fetched,
                   alerted, failed_events, fetch_error,
                   proxy_set, session, smtp_connections, fetch_routes>>

\* Variant of SendNoCredentials: the credentials are not tested first; the
\* SMTP connection is opened and the login raises.
SendNoCredentials_attempts ==
    /\ pc = "notifying"
    /\ ~credentials_set
    /\ send_ret' = "False"
    /\ smtp_connections' = smtp_connections + 1
    /\ notifier_calls' = notifier_calls + 1
    /\ alerted' = alerted \cup {EventKey(matches_found)}
    /\ failed_events' = failed_events \cup {EventKey(matches_found)}
    /\ run_ret' = "True"
    /\ pc' = "after_run"
    /\ UNCHANGED <<i, timing, credentials_set, raw_html_content, matches_found,
                   main_ret, cancel_requested, cycles_run, texts_fetched,
                   detections, new_context, fetch_error,
                   proxy_set, session, analysis_error, nonempty_results, fetch_routes>>

\* send_email_alert with a credential missing: prints and returns False before
\* any SMTP connection is opened; monitor_agent_run returns True all the same.
SendNoCredentials ==
    /\ pc = "notifying"
    /\ ~credentials_set
    /\ send_ret' = "False"
    /\ notifier_calls' = notifier_calls + 1
    /\ alerted' = alerted \cup {EventKey(matches_found)}
    /\ failed_events' = failed_events \cup {EventKey(matches_found)}
    /\ run_ret' = "True"
    /\ pc' = "after_run"
    /\ UNCHANGED <<i, timing, credentials_set, raw_html_content, matches_found,
                   main_ret, cancel_requested, cycles_run, texts_fetched,
                   detections, new_context, fetch_error,
                   proxy_set, session, analysis_error, nonempty_results, smtp_connections, fetch_routes>>

\* Variant of SendOk: one call of send_email_alert per match of the list.
SendOk_per_match ==
    /\ pc = "notifying"
    /\ credentials_set
    /\ \E dt \in StepTimes : now' = now + dt
    /\ send_ret' = "True"
    /\ smtp_connections' = smtp_connections + 1
    /\ notifier_calls' = notifier_calls + Cardinality(matches_found)
    /\ alerted' = alerted \cup {EventKey(matches_found)}
    /\ run_ret' = "True"
    /\ pc' = "after_run"
    /\ UNCHANGED <<i, start_time, end_time, time_to_sleep, prev_start,
                   credentials_set, raw_html_content, matches_found,
                   main_ret, cancel_requested, cycles_run, texts_fetched,
                   detections, failed_events, new_context, fetch_error,
                   proxy_set, session, analysis_error, nonempty_results, fetch_routes>>

\* send_email_alert: the SMTP dialogue (connect, starttls, login, sendmail)
\* completes and the function returns True.
SendOk ==
    /\ pc = "notifying"
    /\ credentials_set
    /\ \E dt \in StepTimes : now' = now + dt
    /\ send_ret' = "True"
    /\ smtp_connections' = smtp_connections + 1
    /\ notifier_calls' = notifier_calls + 1
    /\ alerted' = alerted \cup {EventKey(matches_found)}
    /\ run_ret' = "True"
    /\ pc' = "after_run"
    /\ UNCHANGED <<i, start_time, end_time, time_to_sleep, prev_start,
                   credentials_set, raw_html_content, matches_found,
                   main_ret, cancel_requested, cycles_run, texts_fetched,
                   detections, failed_events, new_context, fetch_error,
                   proxy_set, session, analysis_error, nonempty_results, fetch_routes>>

\* Variant of SendFail: send_email_alert lets the SMTP exception out, and the
\* "except Exception" of monitor_agent_run turns it into False.
SendFail_escapes ==
    /\ pc = "notifying"
    /\ credentials_set
    /\ \E dt \in StepTimes : now' = now + dt
    /\ send_ret' = "raised"
    /\ smtp_connections' = smtp_connections + 1
    /\ notifier_calls' = notifier_calls + 1
    /\ alerted' = alerted \cup {EventKey(matches_found)}
    /\ failed_events' = failed_events \cup {EventKey(matches_found)}
    /\ run_ret' = "False"
    /\ pc' = "after_run"
    /\ UNCHANGED <<i, start_time, end_time, time_to_sleep, prev_start,
                   credentials_set, raw_html_content, matches_found,
                   main_ret, cancel_requested, cycles_run, texts_fetched,
                   detections, new_context, fetch_error,
                   proxy_set, session, analysis_error, nonempty_results, fetch_routes>>

\* send_email_alert: the SMTP dialogue raises; "except Exception" prints the
\* error and returns False, and monitor_agent_run returns True.
SendFail ==
    /\ pc = "notifying"
    /\ credentials_set
    /\ \E dt \in StepTimes : now' = now + dt
    /\ send_ret' = "False"
    /\ smtp_connections' = smtp_connections + 1
    /\ notifier_calls' = notifier_calls + 1
    /\ alerted' = alerted \cup {EventKey(matches_found)}
    /\ failed_events' = failed_events \cup {EventKey(matches_found)}
    /\ run_ret' = "True"
    /\ pc' = "after_run"
    /\ UNCHANGED <<i, start_time, end_time, time_to_sleep, prev_start,
                   credentials_set, raw_html_content, matches_found,
                   main_ret, cancel_requested, cycles_run, texts_fetched,
                   detections, new_context, fetch_error,
                   proxy_set, session, analysis_error, nonempty_results, fetch_routes>>

\* Variant of TimeToSleep: the cycle's own duration is not subtracted.
TimeToSleep_flat(check_duration) == SLEEP_INTERVAL

\* time_to_sleep = SLEEP_INTERVAL - check_duration
TimeToSleep(check_duration) == SLEEP_INTERVAL - check_duration

\* Variant of ShouldSleep: the test of i is missing.
ShouldSleep_every_cycle(t, k) == t > 0

\* if time_to_sleep > 0 and i < NUM_CHECKS
ShouldSleep(t, k) == t > 0 /\ k < NUM_CHECKS

\* main() after monitor_agent_run returned (its value is discarded):
\* end_time, check_duration, time_to_sleep and the choice to sleep or not.
EndCycle ==
    /\ pc = "after_run"
    /\ end_time' = now
    /\ time_to_sleep' = TimeToSleep(now - start_time)
    /\ IF ShouldSleep(TimeToSleep(now - start_time), i)
       THEN pc' = "sleeping"
       ELSE pc' = "for"
    /\ UNCHANGED <<i, now, start_time, prev_start, credentials_set,
                   locals, main_ret, cancel_requested, history,
                   proxy_set, session, analysis_error, nonempty_results, smtp_connections, fetch_routes>>

\* time.sleep(time_to_sleep) returns after time_to_sleep.
Sleep ==
    /\ pc = "sleeping"
    /\ now' = now + time_to_sleep
    /\ pc' = "for"
    /\ UNCHANGED <<i, start_time, end_time, time_to_sleep, prev_start,
                   credentials_set, locals, main_ret, cancel_requested, history,
                   proxy_set, session, analysis_error, nonempty_results, smtp_connections, fetch_routes>>

\* The environment signals that the run should stop.  Neither main() nor
\* monitor_agent_run reads any such signal: no other action mentions the flag.
Cancel ==
    /\ pc # "Done"
    /\ ~cancel_requested
    /\ cancel_requested' = TRUE
    /\ UNCHANGED <<pc, i, timing, credentials_set, locals, main_ret, history,
                   proxy_set, session, analysis_error, nonempty_results, smtp_connections, fetch_routes>>

Next ==
    \/ Start
    \/ ForNext
    \/ ForExit
    \/ FetchOk
    \/ FetchFail
    \/ Analyse
    \/ SendNoCredentials
    \/ SendOk
    \/ SendFail
    \/ EndCycle
    \/ Sleep
    \/ Cancel

Spec == Init /\ [][Next]_vars

\* Every step of the loop completes, except the SMTP dialogue: requests is given
\* timeout=15 (GET) and timeout=30 (POST) and time.sleep is finite, but
\* smtplib.SMTP(SMTP_SERVER, 587) is opened without a timeout, so SendOk and
\* SendFail may never happen.
FairSpec ==
    /\ Spec
    /\ WF_vars(Start)
    /\ WF_vars(ForNext)
    /\ WF_vars(ForExit)
    /\ WF_vars(FetchOk \/ FetchFail)
    /\ WF_vars(Analyse)
    /\ WF_vars(SendNoCredentials)
    /\ WF_vars(EndCycle)
    /\ WF_vars(Sleep)
\* ---- the claims -----------------------------------------------------------

InCycle == pc \in {"fetching", "analysing", "notifying", "after_run"}

\* C1: when every fetch of the run returned the same text and every analysis
\* the same result, send_email_alert is called at most once in the whole run.
C1_AtMostOnceAlert ==
    (Cardinality(texts_fetched) <= 1 /\ Cardinality(detections) <= 1)
        => notifier_calls <= 1

\* C2: send_email_alert is never called for an event whose earlier send failed.
C2_FailedNeverRetried ==
    pc = "notifying" => EventKey(matches_found) \notin failed_events

\* C3: when the analysis of a cycle returns a non-empty result that differs
\* from the result of every earlier cycle, send_email_alert is called in that
\* cycle: from the analysis on, the call is under way or has returned.
C3_NewContextRealert ==
    new_context =>
        /\ pc = "notifying" \/ send_ret \in {"True", "False"}
        /\ pc # "notifying" => EventKey(matches_found) \in alerted

\* C3 witness: a second alert for a list that shares a match with an earlier
\* alert but is not the same list.
C3_Witness ==
    /\ new_context
    /\ pc = "after_run"
    /\ send_ret = "True"
    /\ notifier_calls >= 2
    /\ \E a \in alerted : a # matches_found /\ a \cap matches_found # {}

\* C4: a failed fetch sends nothing and ends only its own call: the cycle goes
\* on to the pacing code with monitor_agent_run returning False, and main()
\* finishes only after all NUM_CHECKS cycles.
C4_FetchFailureIsolated ==
    /\ fetch_error =>
        /\ pc \in {"after_run", "sleeping", "for", "Done"}
        /\ run_ret = "False"
        /\ send_ret = "none"
        /\ matches_found = {}
    /\ pc = "Done" => (i = NUM_CHECKS /\ cycles_run = NUM_CHECKS)

\* C4 witness: a complete run in which every one of the NUM_CHECKS fetches
\* failed (no text was ever obtained) and nothing was sent.
C4_Witness ==
    /\ pc = "Done"
    /\ fetch_error
    /\ texts_fetched = {}
    /\ cycles_run = NUM_CHECKS
    /\ notifier_calls = 0

\* C5: a failed send is a False result of send_email_alert, never an error
\* that leaves it; monitor_agent_run still returns True, the cycle goes on to
\* the pacing code, and main() finishes only after all NUM_CHECKS cycles.
C5_SendFailureNonFatal ==
    /\ send_ret \in {"none", "True", "False"}
    /\ send_ret = "False" =>
        /\ run_ret = "True"
        /\ pc \in {"after_run", "sleeping", "for", "Done"}
        /\ EventKey(matches_found) \in failed_events
    /\ pc = "Done" => cycles_run = NUM_CHECKS

\* C5 witness: an SMTP failure in an earlier cycle, and the run went on to a
\* last cycle whose send succeeded.
C5_Witness ==
    /\ pc = "Done"
    /\ credentials_set
    /\ failed_events # {}
    /\ send_ret = "True"
    /\ EventKey(matches_found) \notin failed_events

\* C6: between two consecutive cycles, with d the duration of the first: the
\* time slept is max(0, SLEEP_INTERVAL - d), never negative; if d < SLEEP_INTERVAL
\* the two start times are SLEEP_INTERVAL apart, otherwise the second cycle
\* starts when the first ends.
C6_IntervalPacing ==
    /\ (InCycle /\ i >= 2) =>
        LET d == end_time - prev_start IN
        /\ start_time - end_time = Max(0, SLEEP_INTERVAL - d)
        /\ d < SLEEP_INTERVAL => start_time - prev_start = SLEEP_INTERVAL
        /\ d >= SLEEP_INTERVAL => start_time = end_time
    /\ pc = "sleeping" =>
        /\ time_to_sleep > 0
        /\ time_to_sleep = SLEEP_INTERVAL - (end_time - start_time)
        /\ now = end_time

\* C6 witness: a cycle that took some time, but less than the interval, and
\* the next cycle started one interval after it.
C6_Witness ==
    /\ pc = "fetching"
    /\ i >= 2
    /\ end_time - prev_start > 0
    /\ end_time - prev_start < SLEEP_INTERVAL
    /\ start_time - prev_start = SLEEP_INTERVAL

\* C7: main() runs exactly NUM_CHECKS cycles before it is Done, and every run
\* reaches Done.
C7_BoundedRun ==
    /\ [](pc = "Done" => cycles_run = NUM_CHECKS)
    /\ <>(pc = "Done")

\* C8: at Done the run has returned a statistics record: cycles run, events
\* raised, and notifications sent and failed adding up to the calls made.
C8_RunOutcome ==
    pc = "Done" =>
        /\ main_ret.kind = "stats"
        /\ main_ret.cycles_run = cycles_run
        /\ main_ret.events_raised = Cardinality(detections \ {{}})
        /\ main_ret.sent + main_ret.failed = notifier_calls

\* C9: whenever send_email_alert is being called for an event, the event's
\* key is already recorded in the Dedup Store.
C9_RecordBeforeNotify ==
    pc = "notifying" => EventKey(matches_found) \in DedupStore

\* C10: once cancellation is signalled no new cycle is started and a sleep in
\* progress does not run to its end.
C10_Cancellation ==
    [][cancel_requested =>
        /\ cycles_run' = cycles_run
        /\ ~(pc = "sleeping" /\ now' > now)]_vars
\* C11: send_email_alert is called in a cycle only after that cycle's fetch
\* returned a text and the analysis of that text returned a non-empty list; a
\* cycle whose analysis returned the empty list calls it zero times.
C11_PipelineOrder ==
    /\ (pc = "notifying" \/ send_ret # "none") =>
        /\ raw_html_content \in Texts
        /\ ~fetch_error
        /\ matches_found # {}
        /\ EventKey(matches_found) \in detections
    /\ (pc \in {"after_run", "sleeping", "for", "Done"} /\ matches_found = {}) =>
        send_ret = "none"

\* C11 witness: in a later cycle the fetch returned a page showing matches,
\* the analysis returned them, and the send is being invoked.
C11_Witness ==
    /\ pc = "notifying"
    /\ i >= 2
    /\ raw_html_content = NumMatches
    /\ matches_found = 1..NumMatches
    /\ send_ret = "none"

\* C12: a fetch starts only at the head of the loop, after the previous call
\* of monitor_agent_run has returned (fetch, analysis and send all over) and
\* its end time was taken; one fetch is started per cycle, in loop order.
C12_SequentialScheduling ==
    /\ [](cycles_run = i)
    /\ [][(pc' = "fetching" /\ pc # "fetching") =>
            /\ pc = "for"
            /\ i' = i + 1
            /\ cycles_run = 0 \/ (run_ret \in {"True", "False"} /\ end_time >= start_time)
            /\ start_time' >= end_time]_vars

\* C12 witness: the fetch of a later cycle is in flight; the previous cycle
\* took time and was over before this one started.
C12_Witness ==
    /\ pc = "fetching"
    /\ i >= 2
    /\ end_time > prev_start
    /\ start_time >= end_time
    /\ run_ret = "none"

\* C13: the analysis of a fixed page text always returns the same result: in
\* a run whose fetches all returned one text, all analyses returned one result.
C13_IdempotentDetection ==
    Cardinality(texts_fetched) <= 1 => Cardinality(detections) <= 1

\* C14: every cycle that starts finishes: from its fetch on, the call of
\* monitor_agent_run eventually returns to main().
C14_NoUnboundedBlocking ==
    (pc = "fetching") ~> (pc = "after_run")

\* C17: main() sleeps only after a cycle that is not the last; after the last
\* cycle it is Done at the time that cycle ended, however short it was.
C17_NoSleepAfterFinalCycle ==
    /\ pc = "sleeping" => i < NUM_CHECKS
    /\ pc = "Done" => (i = NUM_CHECKS /\ now = end_time)

\* C17 witness: Done after a last cycle shorter than the interval.
C17_Witness ==
    /\ pc = "Done"
    /\ time_to_sleep > 0
    /\ now = end_time
\* C15: when call_gemini_agent fails it returns the empty list: nothing is
\* sent in that cycle, monitor_agent_run returns False, and main() goes on and
\* finishes only after all NUM_CHECKS cycles.
C15_AnalysisFailureSuppressesAlert ==
    /\ analysis_error =>
        /\ matches_found = {}
        /\ send_ret = "none"
        /\ run_ret = "False"
        /\ pc \in {"after_run", "sleeping", "for", "Done"}
    /\ pc = "Done" => cycles_run = NUM_CHECKS

\* C15 witness: the analysis of a page that shows matches failed in a cycle
\* before the last, and main() is back at the head of the loop.
C15_Witness ==
    /\ analysis_error
    /\ raw_html_content = NumMatches
    /\ pc = "for"
    /\ i < NUM_CHECKS
    /\ send_ret = "none"

\* C16: send_email_alert is called once for each cycle whose analysis returned
\* a non-empty list, whatever the number of matches in it, and so at most once
\* per cycle and at most cycles_run times in the run.
C16_OneNotificationPerCycle ==
    /\ notifier_calls <= cycles_run
    /\ notifier_calls = nonempty_results - (IF pc = "notifying" THEN 1 ELSE 0)

\* C16 witness: a complete run with two alerts, the last one for a list of
\* two matches, and a cycle whose analysis returned nothing.
C16_Witness ==
    /\ pc = "Done"
    /\ notifier_calls = 2
    /\ nonempty_results = 2
    /\ Cardinality(matches_found) = 2
    /\ {} \in detections

\* C18: with a credential missing, send_email_alert returns False and no SMTP
\* connection is ever opened; monitor_agent_run returns True whenever matches
\* were found, whatever the send returned.
C18_MissingCredentials ==
    /\ ~credentials_set =>
        /\ smtp_connections = 0
        /\ send_ret \in {"none", "False"}
    /\ send_ret # "none" => run_ret = "True"
    /\ (pc \in {"after_run", "sleeping", "for", "Done"} /\ matches_found # {}) =>
        run_ret = "True"

\* C18 witness: credentials missing, matches found, the send returned False
\* and monitor_agent_run returned True.
C18_Witness ==
    /\ ~credentials_set
    /\ pc = "after_run"
    /\ matches_found # {}
    /\ send_ret = "False"
    /\ run_ret = "True"
    /\ smtp_connections = 0

\* C19: with a proxy setting missing the session has no proxy and every fetch
\* of the run goes direct; with all three set the one session maps http and
\* https to the proxy and every fetch of the run goes through it.
C19_ProxyFallback ==
    pc # "Idle" =>
        /\ ~proxy_set =>
            /\ session = [http |-> "direct", https |-> "direct"]
            /\ fetch_routes \subseteq {"direct"}
        /\ proxy_set =>
            /\ session = [http |-> "proxy", https |-> "proxy"]
            /\ fetch_routes \subseteq {"proxy"}

\* C19 witness: a complete run without proxy settings whose fetches, failed
\* ones included, all went direct.
C19_Witness ==
    /\ pc = "Done"
    /\ ~proxy_set
    /\ fetch_routes = {"direct"}
    /\ fetch_error
    /\ texts_fetched # {}
====
